---- MODULE Spec2Model ----
(***************************************************************************)
(* Model of the DRAW terminal front-end (DrawCommand, DrawCommandQueue and *)
(* DrawTerm): the linked command queue, the line editor fed by terminal    *)
(* data events and key events, and the timer-driven drain loop that hands  *)
(* queued commands to the evaluator one promise at a time.                 *)
(*                                                                         *)
(* Strings are sequences of one-character strings.  One JavaScript task    *)
(* (a data event, a key event, a timer callback with the promise reactions *)
(* it triggers, the completion of an upload) is one action: the browser    *)
(* runs each task and its microtasks to completion before the next task.   *)
(***************************************************************************)
EXTENDS Integers, Sequences, FiniteSets, TLC

\* Total number of input characters a behaviour feeds to the terminal.
MaxInput == 4

\* Longest data event (a key press is one character, a paste is several).
MaxEvent == 2

\* Longest data event when the line editor is exercised alone.
MaxPaste == 3

\* Number of add operations in a behaviour of the queue exercised alone.
MaxAdds == 3

\* The null reference.
Null == 0

\* Value of _myTermHistoryPos when no history item is displayed.
NoHistoryPos == -1

CR  == "\r"
LF  == "\n"
DEL == "DEL"
BSL == "\\"

\* Characters a data event is made of.  At the start of a command "u" stands
\* for the keyword "upload " and "d" for the keyword "download "; "a" is
\* any other word.
Chars == {"a", "d", "u", "{", "}", BSL, DEL, CR}

RECURSIVE SeqsUpTo(_, _)
SeqsUpTo(S, n) ==
  IF n = 0 THEN {<<>>}
  ELSE LET shorter == SeqsUpTo(S, n - 1)
       IN  shorter \cup {Append(s, c) : s \in shorter, c \in S}

\* The data events of the model: every non-empty string of at most MaxEvent characters.
Events == SeqsUpTo(Chars, MaxEvent) \ {<<>>}

VARIABLES
  heap,               \* the DrawCommand objects created so far, by reference
  _myCmdQueue,        \* DrawCommandQueue: _myFirst, _myLast, _myLength
  _myTermLine,        \* terminal input typed so far
  _myTermHistory,     \* commands input history
  _myTermHistoryPos,  \* displayed history item, or -1
  _myTermInCounter,   \* number of prompts printed
  timers,             \* pending setTimeout callbacks of _termPopCommandFromQueue
  pending,            \* commands whose evaluation promise is not settled yet
  internalError,      \* the global InternalError: not referenced yet, or found
                      \* defined or undefined by the engine at its first reference
  written,            \* what the last task wrote to the terminal, in order
  added,              \* history variable: the commands given to add, in order
  popped,             \* history variable: the non-null results of pop, in order
  evaluated,          \* history variable: the calls of termEvaluateCommand, in order
  nInput,             \* number of input characters consumed so far
  lastOp              \* the last task: its kind, its input and its outcome

termVars  == <<_myTermLine, _myTermHistory, _myTermHistoryPos, _myTermInCounter,
               timers, pending, internalError, written, evaluated, nInput>>
vars      == <<heap, _myCmdQueue, added, popped, _myTermLine, _myTermHistory,
               _myTermHistoryPos, _myTermInCounter, timers, pending,
               internalError, written, evaluated, nInput, lastOp>>

(***************************************************************************)
(* DrawCommand and DrawCommandQueue                                        *)
(***************************************************************************)

\* new DrawCommand (theCmd, theToEcho)
DrawCommand(theCmd, theToEcho) ==
  [command |-> theCmd, toEcho |-> theToEcho, _myNext |-> Null]

\* new DrawCommandQueue()
DrawCommandQueue == [_myFirst |-> Null, _myLast |-> Null, _myLength |-> 0]

\* A memory: the objects and the queue that links them.
Memory(h, q) == [heap |-> h, queue |-> q]

\* Allocation of an object: its reference is its index in the heap.
New(h, obj) == [heap |-> Append(h, obj), ref |-> Len(h) + 1]

isEmpty(q) == q._myLength = 0

extent(q) == q._myLength

\* add with the new command linked before the first one instead of after the last
addAtFront(m, theCmd) ==
  IF m.queue._myLast # Null
  THEN Memory([m.heap EXCEPT ![theCmd]._myNext = m.queue._myFirst],
              [m.queue EXCEPT !._myFirst = theCmd,
                              !._myLength = m.queue._myLength + 1])
  ELSE Memory(m.heap,
              [_myFirst |-> theCmd, _myLast |-> theCmd, _myLength |-> 1])

\* DrawCommandQueue.add (theCmd), theCmd a reference
add(m, theCmd) ==
  IF m.queue._myLast # Null
  THEN Memory([m.heap EXCEPT ![m.queue._myLast]._myNext = theCmd],
              [m.queue EXCEPT !._myLast = theCmd,
                              !._myLength = m.queue._myLength + 1])
  ELSE Memory(m.heap,
              [_myFirst |-> theCmd, _myLast |-> theCmd, _myLength |-> 1])

\* pop without "this._myLength -= 1"
popKeepsLength(m) ==
  IF m.queue._myFirst = Null
  THEN [mem |-> m, anItem |-> Null]
  ELSE LET anItem == m.queue._myFirst
           q      == [m.queue EXCEPT !._myFirst = m.heap[anItem]._myNext]
       IN  [mem    |-> Memory([m.heap EXCEPT ![anItem]._myNext = Null], q),
            anItem |-> anItem]

\* pop without the reset of _myLast when the queue becomes empty
popKeepsLast(m) ==
  IF m.queue._myFirst = Null
  THEN [mem |-> m, anItem |-> Null]
  ELSE LET anItem == m.queue._myFirst
           q      == [m.queue EXCEPT !._myFirst  = m.heap[anItem]._myNext,
                                     !._myLength = @ - 1]
       IN  [mem    |-> Memory([m.heap EXCEPT ![anItem]._myNext = Null], q),
            anItem |-> anItem]

\* pop with the length decremented before the test of an empty queue
popCountsFirst(m) ==
  IF m.queue._myFirst = Null
  THEN [mem    |-> Memory(m.heap, [m.queue EXCEPT !._myLength = @ - 1]),
        anItem |-> Null]
  ELSE LET anItem == m.queue._myFirst
           len    == m.queue._myLength - 1
           q      == [_myFirst  |-> m.heap[anItem]._myNext,
                      _myLast   |-> IF len = 0 THEN Null ELSE m.queue._myLast,
                      _myLength |-> len]
       IN  [mem    |-> Memory([m.heap EXCEPT ![anItem]._myNext = Null], q),
            anItem |-> anItem]

\* DrawCommandQueue.pop(): the memory after the call and the reference returned
pop(m) ==
  IF m.queue._myFirst = Null
  THEN [mem |-> m, anItem |-> Null]
  ELSE LET anItem == m.queue._myFirst
           len    == m.queue._myLength - 1
           q      == [_myFirst  |-> m.heap[anItem]._myNext,
                      _myLast   |-> IF len = 0 THEN Null ELSE m.queue._myLast,
                      _myLength |-> len]
       IN  [mem    |-> Memory([m.heap EXCEPT ![anItem]._myNext = Null], q),
            anItem |-> anItem]

\* A command as its holder sees it: the object, its text and its echo flag.
Seen(h, ref) ==
  [ref |-> ref, command |-> h[ref].command, toEcho |-> h[ref].toEcho]

NoOp == [op |-> "init", ev |-> <<>>, item |-> Null, outcome |-> "none"]

Op(name, ev, item, outcome) ==
  [op |-> name, ev |-> ev, item |-> item, outcome |-> outcome]

Init ==
  /\ heap = <<>>
  /\ _myCmdQueue = DrawCommandQueue
  /\ _myTermLine = <<>>
  /\ _myTermHistory = <<>>
  /\ _myTermHistoryPos = NoHistoryPos
  /\ _myTermInCounter = 0
  /\ timers = 0
  /\ pending = {}
  /\ internalError = "unreferenced"
  /\ written = <<>>
  /\ added = <<>>
  /\ popped = <<>>
  /\ evaluated = <<>>
  /\ nInput = 0
  /\ lastOp = NoOp

(***************************************************************************)
(* The queue exercised alone: any sequence of add and pop.                 *)
(***************************************************************************)

\* Command texts given to the queue when it is exercised alone.
QueueTexts == {<<>>, <<"a">>, <<"u">>}

QueueAdd(theCmd, theToEcho) ==
  /\ Len(added) < MaxAdds
  /\ LET n == New(heap, DrawCommand(theCmd, theToEcho))
         m == add(Memory(n.heap, _myCmdQueue), n.ref)
     IN  /\ heap' = m.heap
         /\ _myCmdQueue' = m.queue
         /\ added' = Append(added, Seen(n.heap, n.ref))
         /\ lastOp' = Op("add", theCmd, n.ref, "none")
  /\ UNCHANGED <<popped>>
  /\ UNCHANGED termVars

QueuePop ==
  /\ LET r == pop(Memory(heap, _myCmdQueue))
     IN  /\ heap' = r.mem.heap
         /\ _myCmdQueue' = r.mem.queue
         /\ popped' = IF r.anItem = Null THEN popped
                      ELSE Append(popped, Seen(heap, r.anItem))
         /\ lastOp' = Op("pop", <<>>, r.anItem, "none")
  /\ UNCHANGED <<added>>
  /\ UNCHANGED termVars

QueueNext ==
  \/ \E theCmd \in QueueTexts, theToEcho \in BOOLEAN : QueueAdd(theCmd, theToEcho)
  \/ QueuePop

QueueSpec == Init /\ [][QueueNext]_vars

(***************************************************************************)
(* DrawTerm: terminal output                                               *)
(***************************************************************************)

\* One write to the terminal: its kind and its text.
W(kind, text) == <<kind, text>>

\* terminalWrite of an input character, of the erase sequence '\b \b', of
\* the continuation prompt "\n\r> ", of a command or history text.
WChar(aChar) == W("char", <<aChar>>)
WErase       == W("erase", <<>>)
WContinue    == W("continue", <<>>)
WText(text)  == W("text", text)

\* terminalWriteLine, terminalWriteError
WLine  == W("line", <<>>)
WError == W("error", <<>>)

\* The two writes of terminalPrintInputLine: the new line and "Draw[n]> ".
WPrompt == W("prompt", <<>>)

(***************************************************************************)
(* DrawTerm: the line editor                                               *)
(***************************************************************************)

\* theText.substring (0, theText.length - 1)
DropLast(theText) == SubSeq(theText, 1, Len(theText) - 1)

\* theText.endsWith ("\\")
EndsWithBackslash(theText) == Len(theText) > 0 /\ theText[Len(theText)] = BSL

\* Number of braces left open by a text.
OpenBraces(theText) ==
  LET depth[i \in 0..Len(theText)] ==
        IF i = 0 THEN 0
        ELSE IF theText[i] = "{" THEN depth[i - 1] + 1
        ELSE IF theText[i] = "}" /\ depth[i - 1] > 0 THEN depth[i - 1] - 1
        ELSE depth[i - 1]
  IN  depth[Len(theText)]

\* isComplete (theText): the interpreter's check that no bracket is left open.
isComplete(theText) == OpenBraces(theText) = 0

\* _termQueueCommand with the timer started at every call
termQueueCommandAlwaysSchedules(st, theCmd, theToEcho) ==
  LET n == New(st.mem.heap, DrawCommand(theCmd, theToEcho))
      m == add(Memory(n.heap, st.mem.queue), n.ref)
  IN  [st EXCEPT !.mem    = m,
                 !.timers = @ + 1,
                 !.added  = Append(@, Seen(n.heap, n.ref))]

\* _termQueueCommand (theCmd, theToEcho), on the state of a running handler
termQueueCommand(st, theCmd, theToEcho) ==
  LET n == New(st.mem.heap, DrawCommand(theCmd, theToEcho))
      m == add(Memory(n.heap, st.mem.queue), n.ref)
  IN  [st EXCEPT !.mem    = m,
                 !.timers = IF extent(m.queue) = 1 THEN @ + 1 ELSE @,
                 !.added  = Append(@, Seen(n.heap, n.ref))]

\* The deletion character with the erase sequence written in every case
onDeleteAlwaysErases(st) ==
  IF Len(st.line) > 0
  THEN [st EXCEPT !.written = Append(@, WErase),
                  !.line    = DropLast(@)]
  ELSE st

\* The deletion character "\x7f"
onDelete(st) ==
  IF Len(st.line) > 0
  THEN [st EXCEPT !.written = IF st.nb = 0 THEN Append(@, WErase) ELSE @,
                  !.line    = DropLast(@)]
  ELSE st

\* The carriage return with a complete line queued and the line not reset
onReturnKeepsLine(st) ==
  LET aCmd == st.line
  IN  IF EndsWithBackslash(aCmd)
      THEN [st EXCEPT !.line    = DropLast(@),
                      !.written = IF st.nb = 0 THEN Append(@, WContinue) ELSE @]
      ELSE IF ~isComplete(aCmd)
      THEN [st EXCEPT !.line    = @ \o <<LF, CR>>,
                      !.written = IF st.nb = 0 THEN Append(@, WContinue) ELSE @]
      ELSE [termQueueCommand(st, aCmd, st.nb # 0) EXCEPT !.nb = @ + 1]

\* The carriage return with the completeness of the line tested first, as
\* before the continuation marker was handled
onReturnNoMarker(st) ==
  LET aCmd == st.line
  IN  IF isComplete(aCmd)
      THEN [termQueueCommand([st EXCEPT !.line = <<>>], aCmd, st.nb # 0)
              EXCEPT !.nb = @ + 1]
      ELSE [st EXCEPT !.line    = @ \o <<LF, CR>>,
                      !.written = IF st.nb = 0 THEN Append(@, WContinue) ELSE @]

\* The carriage return with an incomplete line dropped instead of continued
onReturnForgetsLine(st) ==
  LET aCmd == st.line
  IN  IF EndsWithBackslash(aCmd)
      THEN [st EXCEPT !.line    = DropLast(@),
                      !.written = IF st.nb = 0 THEN Append(@, WContinue) ELSE @]
      ELSE IF ~isComplete(aCmd)
      THEN [st EXCEPT !.line    = <<>>,
                      !.written = IF st.nb = 0 THEN Append(@, WContinue) ELSE @]
      ELSE [termQueueCommand([st EXCEPT !.line = <<>>], aCmd, st.nb # 0)
              EXCEPT !.nb = @ + 1]

\* The carriage return without "++aNbNewLines"
onReturnNoCount(st) ==
  LET aCmd == st.line
  IN  IF EndsWithBackslash(aCmd)
      THEN [st EXCEPT !.line    = DropLast(@),
                      !.written = IF st.nb = 0 THEN Append(@, WContinue) ELSE @]
      ELSE IF ~isComplete(aCmd)
      THEN [st EXCEPT !.line    = @ \o <<LF, CR>>,
                      !.written = IF st.nb = 0 THEN Append(@, WContinue) ELSE @]
      ELSE termQueueCommand([st EXCEPT !.line = <<>>], aCmd, st.nb # 0)

\* The carriage return "\x0d"
onReturn(st) ==
  LET aCmd == st.line
  IN  IF EndsWithBackslash(aCmd)
      THEN [st EXCEPT !.line    = DropLast(@),
                      !.written = IF st.nb = 0 THEN Append(@, WContinue) ELSE @]
      ELSE IF ~isComplete(aCmd)
      THEN [st EXCEPT !.line    = @ \o <<LF, CR>>,
                      !.written = IF st.nb = 0 THEN Append(@, WContinue) ELSE @]
      ELSE [termQueueCommand([st EXCEPT !.line = <<>>], aCmd, st.nb # 0)
              EXCEPT !.nb = @ + 1]

\* Any other character, written to the terminal in every case
onOtherAlwaysWrites(st, aChar) ==
  [st EXCEPT !.written = Append(@, WChar(aChar)),
             !.line    = Append(@, aChar)]

\* Any other character
onOther(st, aChar) ==
  [st EXCEPT !.written = IF st.nb = 0 THEN Append(@, WChar(aChar)) ELSE @,
             !.line    = Append(@, aChar)]

\* The body of the loop of _onTermDataInput
onChar(st, aChar) ==
  IF aChar = DEL THEN onDelete(st)
  ELSE IF aChar = CR THEN onReturn(st)
  ELSE onOther(st, aChar)

\* The loop of _onTermDataInput over the characters of theEvent
RECURSIVE onChars(_, _)
onChars(st, theEvent) ==
  IF theEvent = <<>> THEN st
  ELSE onChars(onChar(st, Head(theEvent)), Tail(theEvent))

\* The state a call of _onTermDataInput starts from: aNbNewLines is 0.
Entry ==
  [mem     |-> Memory(heap, _myCmdQueue),
   line    |-> _myTermLine,
   nb      |-> 0,
   timers  |-> timers,
   written |-> <<>>,
   added   |-> added]

\* _onTermDataInput (theEvent)
OnTermDataInput(theEvent) ==
  /\ nInput + Len(theEvent) <= MaxInput
  /\ LET st == onChars(Entry, theEvent)
     IN  /\ heap' = st.mem.heap
         /\ _myCmdQueue' = st.mem.queue
         /\ _myTermLine' = st.line
         /\ timers' = st.timers
         /\ written' = st.written
         /\ added' = st.added
  /\ nInput' = nInput + Len(theEvent)
  /\ lastOp' = Op("data", theEvent, Null, "none")
  /\ UNCHANGED <<_myTermHistory, _myTermHistoryPos, _myTermInCounter, pending,
                 internalError, popped, evaluated>>

(***************************************************************************)
(* The line editor exercised alone: data events, pastes included, and no   *)
(* timer firing between them.                                              *)
(***************************************************************************)

\* The data events given to the line editor exercised alone.
Pastes == SeqsUpTo(Chars, MaxPaste) \ {<<>>}

EditorNext == \E theEvent \in Pastes : OnTermDataInput(theEvent)

EditorSpec == Init /\ [][EditorNext]_vars

ArrowUp   == 38
ArrowDown == 40

\* Key codes and event types of the key events of the model.
KeyCodes == {ArrowUp, ArrowDown}
KeyTypes == {"keydown", "keyup"}

\* The index wrapped around the bounds instead of clamped to them
ClampWraps(x, hi) ==
  IF x < 0 THEN hi ELSE IF x > hi THEN 0 ELSE x

\* Math.max (Math.min (x, hi), 0)
Clamp(x, hi) ==
  LET lo == IF x < hi THEN x ELSE hi
  IN  IF lo > 0 THEN lo ELSE 0

\* The erase loop of _onTermKeyEvent: one '\b \b' per character of the line.
EraseLine(theLine) == [i \in 1..Len(theLine) |-> WErase]

\* The arrow keys with the navigation started at the oldest history item
OnArrowKeyFromOldest(keyCode, type) ==
  LET aDir == IF keyCode = ArrowUp THEN -1 ELSE 1
  IN  IF type # "keydown"
      THEN /\ written' = <<>>
           /\ UNCHANGED <<_myTermLine, _myTermHistoryPos>>
      ELSE IF Len(_myTermHistory) <= 0
      THEN /\ written' = EraseLine(_myTermLine)
           /\ _myTermLine' = <<>>
           /\ UNCHANGED _myTermHistoryPos
      ELSE LET pos == IF _myTermHistoryPos # NoHistoryPos
                      THEN Clamp(_myTermHistoryPos + aDir, Len(_myTermHistory) - 1)
                      ELSE 0
               aHist == _myTermHistory[pos + 1]
           IN  /\ _myTermHistoryPos' = pos
               /\ _myTermLine' = aHist
               /\ written' = Append(EraseLine(_myTermLine), WText(aHist))

\* The arrow keys with the empty history tested before the line is erased
OnArrowKeyChecksHistoryFirst(keyCode, type) ==
  LET aDir == IF keyCode = ArrowUp THEN -1 ELSE 1
  IN  IF type # "keydown"
      THEN /\ written' = <<>>
           /\ UNCHANGED <<_myTermLine, _myTermHistoryPos>>
      ELSE IF Len(_myTermHistory) <= 0
      THEN /\ written' = <<>>
           /\ UNCHANGED <<_myTermLine, _myTermHistoryPos>>
      ELSE LET pos == IF _myTermHistoryPos # NoHistoryPos
                      THEN Clamp(_myTermHistoryPos + aDir, Len(_myTermHistory) - 1)
                      ELSE Len(_myTermHistory) - 1
               aHist == _myTermHistory[pos + 1]
           IN  /\ _myTermHistoryPos' = pos
               /\ _myTermLine' = aHist
               /\ written' = Append(EraseLine(_myTermLine), WText(aHist))

\* _onTermKeyEvent (theEvent) for the arrows up and down
OnArrowKey(keyCode, type) ==
  LET aDir == IF keyCode = ArrowUp THEN -1 ELSE 1
  IN  IF type # "keydown"
      THEN /\ written' = <<>>
           /\ UNCHANGED <<_myTermLine, _myTermHistoryPos>>
      ELSE IF Len(_myTermHistory) <= 0
      THEN /\ written' = EraseLine(_myTermLine)
           /\ _myTermLine' = <<>>
           /\ UNCHANGED _myTermHistoryPos
      ELSE LET pos == IF _myTermHistoryPos # NoHistoryPos
                      THEN Clamp(_myTermHistoryPos + aDir, Len(_myTermHistory) - 1)
                      ELSE Len(_myTermHistory) - 1
               aHist == _myTermHistory[pos + 1]
           IN  /\ _myTermHistoryPos' = pos
               /\ _myTermLine' = aHist
               /\ written' = Append(EraseLine(_myTermLine), WText(aHist))

\* The value _onTermKeyEvent returns
KeyReturns(keyCode) ==
  IF keyCode \in {ArrowUp, ArrowDown} THEN "false" ELSE "true"

\* The arrow keydown events handled one right after the other, this one
\* included, since the one that found no history item displayed; empty when
\* another task came between or when more than three were handled.
KeyRun(keyCode, type) ==
  LET aRun == IF lastOp.op = "keydown" THEN lastOp.ev ELSE <<>>
  IN  IF type # "keydown" THEN <<>>
      ELSE IF _myTermHistoryPos = NoHistoryPos THEN <<keyCode>>
      ELSE IF aRun # <<>> /\ Len(aRun) < 3 THEN Append(aRun, keyCode)
      ELSE <<>>

\* _onTermKeyEvent (theEvent)
OnTermKeyEvent(keyCode, type) ==
  /\ IF keyCode \in {ArrowUp, ArrowDown}
     THEN OnArrowKey(keyCode, type)
     ELSE /\ written' = <<>>
          /\ UNCHANGED <<_myTermLine, _myTermHistoryPos>>
  /\ lastOp' = Op(type, KeyRun(keyCode, type),
                   IF type = "keydown" THEN keyCode ELSE Null,
                   KeyReturns(keyCode))
  /\ UNCHANGED <<heap, _myCmdQueue, _myTermHistory, _myTermInCounter, timers,
                 pending, internalError, added, popped, evaluated, nInput>>

(***************************************************************************)
(* DrawTerm: the drain loop                                                *)
(***************************************************************************)

\* theCmd.startsWith ("jsupload ") or theCmd.startsWith ("upload ")
IsUpload(theCmd) == Len(theCmd) > 0 /\ Head(theCmd) = "u"

\* theCmd.startsWith ("jsdownload "), ("jsdown ") or ("download ")
IsDownload(theCmd) == Len(theCmd) > 0 /\ Head(theCmd) = "d"

\* What the collaborators of termEvaluateCommand may do with a command:
\* _commandJsdownload returns true or false; _commandJsupload finds no
\* source ("syntax") or starts the uploads; eval returns or throws.
Outcomes(theCmd) ==
  IF theCmd = <<>> THEN {"empty"}
  ELSE IF IsDownload(theCmd) THEN {"downloaded", "failed"}
  ELSE IF IsUpload(theCmd) THEN {"syntax", "starts"}
  ELSE {"returns", "throws"}

\* What the engine may answer when the catch block of termEvaluateCommand
\* refers to the global InternalError, which only some engines define: the
\* first reference finds one or the other, later ones find the same.
Engines(outcome) ==
  IF outcome = "throws" /\ internalError = "unreferenced"
  THEN {"defined", "undefined"}
  ELSE {internalError}

\* termEvaluateCommand with the command put in the history only when its
\* evaluation does not fail
termEvaluateCommandKeepsSuccesses(theCmd, outcome, engine) ==
  IF theCmd = <<>>
  THEN [history |-> _myTermHistory, pos |-> _myTermHistoryPos,
        written |-> <<>>, promise |-> "fulfilled"]
  ELSE [history |-> IF outcome \in {"failed", "syntax", "throws"}
                    THEN _myTermHistory
                    ELSE Append(_myTermHistory, theCmd),
        pos |-> NoHistoryPos,
        written |->
          CASE outcome = "downloaded" -> <<WLine>>
            [] outcome = "failed"     -> <<WError>>
            [] OTHER                  -> <<>>,
        promise |->
          CASE outcome = "downloaded" -> "fulfilled"
            [] outcome = "failed"     -> "rejected"
            [] outcome = "syntax"     -> "rejected"
            [] outcome = "starts"     -> "pending"
            [] outcome = "returns"    -> "fulfilled"
            [] outcome = "throws"     ->
                 \* catch: Promise.reject (new InternalError (theErr))
                 IF engine = "defined" THEN "rejected" ELSE "thrown"]

\* termEvaluateCommand with the history cursor reset before the empty
\* command is told apart
termEvaluateCommandResetsFirst(theCmd, outcome, engine) ==
  IF theCmd = <<>>
  THEN [history |-> _myTermHistory, pos |-> NoHistoryPos,
        written |-> <<>>, promise |-> "fulfilled"]
  ELSE [history |-> Append(_myTermHistory, theCmd), pos |-> NoHistoryPos,
        written |->
          CASE outcome = "downloaded" -> <<WLine>>
            [] outcome = "failed"     -> <<WError>>
            [] OTHER                  -> <<>>,
        promise |->
          CASE outcome = "downloaded" -> "fulfilled"
            [] outcome = "failed"     -> "rejected"
            [] outcome = "syntax"     -> "rejected"
            [] outcome = "starts"     -> "pending"
            [] outcome = "returns"    -> "fulfilled"
            [] outcome = "throws"     ->
                 \* catch: Promise.reject (new InternalError (theErr))
                 IF engine = "defined" THEN "rejected" ELSE "thrown"]

\* termEvaluateCommand without "this._myTermHistoryPos = -1"
termEvaluateCommandKeepsCursor(theCmd, outcome, engine) ==
  IF theCmd = <<>>
  THEN [history |-> _myTermHistory, pos |-> _myTermHistoryPos,
        written |-> <<>>, promise |-> "fulfilled"]
  ELSE [history |-> Append(_myTermHistory, theCmd), pos |-> _myTermHistoryPos,
        written |->
          CASE outcome = "downloaded" -> <<WLine>>
            [] outcome = "failed"     -> <<WError>>
            [] OTHER                  -> <<>>,
        promise |->
          CASE outcome = "downloaded" -> "fulfilled"
            [] outcome = "failed"     -> "rejected"
            [] outcome = "syntax"     -> "rejected"
            [] outcome = "starts"     -> "pending"
            [] outcome = "returns"    -> "fulfilled"
            [] outcome = "throws"     ->
                 \* catch: Promise.reject (new InternalError (theErr))
                 IF engine = "defined" THEN "rejected" ELSE "thrown"]

\* termEvaluateCommand (theCmd): the history, and the promise it returns or
\* "thrown" when it throws instead of returning one.
termEvaluateCommand(theCmd, outcome, engine) ==
  IF theCmd = <<>>
  THEN [history |-> _myTermHistory, pos |-> _myTermHistoryPos,
        written |-> <<>>, promise |-> "fulfilled"]
  ELSE [history |-> Append(_myTermHistory, theCmd), pos |-> NoHistoryPos,
        written |->
          CASE outcome = "downloaded" -> <<WLine>>
            [] outcome = "failed"     -> <<WError>>
            [] OTHER                  -> <<>>,
        promise |->
          CASE outcome = "downloaded" -> "fulfilled"
            [] outcome = "failed"     -> "rejected"
            [] outcome = "syntax"     -> "rejected"
            [] outcome = "starts"     -> "pending"
            [] outcome = "returns"    -> "fulfilled"
            [] outcome = "throws"     ->
                 \* catch: Promise.reject (new InternalError (theErr))
                 IF engine = "defined" THEN "rejected" ELSE "thrown"]

\* terminalPrintInputLine and the next drain, common to both reactions
PromptAndNext(st) ==
  [st EXCEPT !.written = Append(@, WPrompt),
             !.counter = @ + 1,
             !.timers  = IF ~isEmpty(st.queue) THEN @ + 1 ELSE @]

\* The reaction given to then()
onFulfilled(st) == PromptAndNext(st)

\* The reaction given to catch()
onRejected(st) == PromptAndNext([st EXCEPT !.written = Append(@, WError)])

\* The reactions run once the promise is settled; none runs before.
React(st, promise) ==
  CASE promise = "fulfilled" -> onFulfilled(st)
    [] promise = "rejected"  -> onRejected(st)
    [] OTHER                 -> st

\* _termPopCommandFromQueue with the input line reset by the drain step
TermPopCommandFromQueueClearsLine ==
  /\ timers > 0
  /\ LET r    == pop(Memory(heap, _myCmdQueue))
         aCmd == r.anItem
     IN  /\ heap' = r.mem.heap
         /\ _myCmdQueue' = r.mem.queue
         /\ IF aCmd = Null
            THEN /\ timers' = timers - 1
                 /\ written' = <<>>
                 /\ lastOp' = Op("drain", <<>>, Null, "none")
                 /\ UNCHANGED <<_myTermHistory, _myTermHistoryPos,
                                _myTermInCounter, pending, popped, evaluated,
                                internalError>>
            ELSE \E outcome \in Outcomes(heap[aCmd].command) :
                 \E engine \in Engines(outcome) :
                   LET text == heap[aCmd].command
                       e    == termEvaluateCommand(text, outcome, engine)
                       st   == React([queue   |-> r.mem.queue,
                                      timers  |-> timers - 1,
                                      counter |-> _myTermInCounter,
                                      written |-> (IF heap[aCmd].toEcho
                                                   THEN <<WText(text)>>
                                                   ELSE <<>>) \o e.written],
                                     e.promise)
                   IN  /\ popped' = Append(popped, Seen(heap, aCmd))
                       /\ evaluated' = Append(evaluated, [command |-> text, outcome |-> outcome])
                       /\ _myTermHistory' = e.history
                       /\ _myTermHistoryPos' = e.pos
                       /\ pending' = IF e.promise = "pending"
                                     THEN pending \cup {aCmd} ELSE pending
                       /\ timers' = st.timers
                       /\ _myTermInCounter' = st.counter
                       /\ written' = st.written
                       /\ internalError' = engine
                       /\ lastOp' = Op("drain", text, aCmd, outcome)
  /\ _myTermLine' = <<>>
  /\ UNCHANGED <<added, nInput>>

\* _termPopCommandFromQueue starting a timer again when it finds no command
TermPopCommandFromQueuePolls ==
  /\ timers > 0
  /\ LET r    == pop(Memory(heap, _myCmdQueue))
         aCmd == r.anItem
     IN  /\ heap' = r.mem.heap
         /\ _myCmdQueue' = r.mem.queue
         /\ IF aCmd = Null
            THEN /\ timers' = timers
                 /\ written' = <<>>
                 /\ lastOp' = Op("drain", <<>>, Null, "none")
                 /\ UNCHANGED <<_myTermHistory, _myTermHistoryPos,
                                _myTermInCounter, pending, popped, evaluated,
                                internalError>>
            ELSE \E outcome \in Outcomes(heap[aCmd].command) :
                 \E engine \in Engines(outcome) :
                   LET text == heap[aCmd].command
                       e    == termEvaluateCommand(text, outcome, engine)
                       st   == React([queue   |-> r.mem.queue,
                                      timers  |-> timers - 1,
                                      counter |-> _myTermInCounter,
                                      written |-> (IF heap[aCmd].toEcho
                                                   THEN <<WText(text)>>
                                                   ELSE <<>>) \o e.written],
                                     e.promise)
                   IN  /\ popped' = Append(popped, Seen(heap, aCmd))
                       /\ evaluated' = Append(evaluated, [command |-> text, outcome |-> outcome])
                       /\ _myTermHistory' = e.history
                       /\ _myTermHistoryPos' = e.pos
                       /\ pending' = IF e.promise = "pending"
                                     THEN pending \cup {aCmd} ELSE pending
                       /\ timers' = st.timers
                       /\ _myTermInCounter' = st.counter
                       /\ written' = st.written
                       /\ internalError' = engine
                       /\ lastOp' = Op("drain", text, aCmd, outcome)
  /\ UNCHANGED <<_myTermLine, added, nInput>>

\* _termPopCommandFromQueue(), called by a timer
TermPopCommandFromQueue ==
  /\ timers > 0
  /\ LET r    == pop(Memory(heap, _myCmdQueue))
         aCmd == r.anItem
     IN  /\ heap' = r.mem.heap
         /\ _myCmdQueue' = r.mem.queue
         /\ IF aCmd = Null
            THEN /\ timers' = timers - 1
                 /\ written' = <<>>
                 /\ lastOp' = Op("drain", <<>>, Null, "none")
                 /\ UNCHANGED <<_myTermHistory, _myTermHistoryPos,
                                _myTermInCounter, pending, popped, evaluated,
                                internalError>>
            ELSE \E outcome \in Outcomes(heap[aCmd].command) :
                 \E engine \in Engines(outcome) :
                   LET text == heap[aCmd].command
                       e    == termEvaluateCommand(text, outcome, engine)
                       st   == React([queue   |-> r.mem.queue,
                                      timers  |-> timers - 1,
                                      counter |-> _myTermInCounter,
                                      written |-> (IF heap[aCmd].toEcho
                                                   THEN <<WText(text)>>
                                                   ELSE <<>>) \o e.written],
                                     e.promise)
                   IN  /\ popped' = Append(popped, Seen(heap, aCmd))
                       /\ evaluated' = Append(evaluated, [command |-> text, outcome |-> outcome])
                       /\ _myTermHistory' = e.history
                       /\ _myTermHistoryPos' = e.pos
                       /\ pending' = IF e.promise = "pending"
                                     THEN pending \cup {aCmd} ELSE pending
                       /\ timers' = st.timers
                       /\ _myTermInCounter' = st.counter
                       /\ written' = st.written
                       /\ internalError' = engine
                       /\ lastOp' = Op("drain", text, aCmd, outcome)
  /\ UNCHANGED <<_myTermLine, added, nInput>>

\* How a started upload ends: the file is written and decoded, the fetch or
\* the file dialog fails, or the file is written and its decoding fails.
UploadResults == {"loaded", "fetchfailed", "preloadfailed"}

\* The end of an upload (uploadUrl, uploadFile) and the reaction it triggers
UploadSettles(aCmd, result) ==
  /\ aCmd \in pending
  /\ pending' = pending \ {aCmd}
  /\ LET st0 == [queue |-> _myCmdQueue, timers |-> timers,
                 counter |-> _myTermInCounter, written |-> <<>>]
         st  == CASE result = "loaded" ->
                       \* theResolve (true); this.terminalPrintInputLine ("")
                       onFulfilled([st0 EXCEPT !.written = <<WLine, WPrompt>>,
                                               !.counter = @ + 1])
                  [] result = "fetchfailed" -> onRejected(st0)
                  [] result = "preloadfailed" ->
                       onRejected([st0 EXCEPT !.written = <<WLine>>])
     IN  /\ timers' = st.timers
         /\ _myTermInCounter' = st.counter
         /\ written' = st.written
  /\ lastOp' = Op("settle", heap[aCmd].command, aCmd, result)
  /\ UNCHANGED <<heap, _myCmdQueue, _myTermLine, _myTermHistory,
                 _myTermHistoryPos, internalError, added, popped, evaluated,
                 nInput>>

\* One of the started uploads ends.
UploadEnds == \E aCmd \in pending, result \in UploadResults : UploadSettles(aCmd, result)

Next ==
  \/ \E theEvent \in Events : OnTermDataInput(theEvent)
  \/ \E keyCode \in KeyCodes, type \in KeyTypes : OnTermKeyEvent(keyCode, type)
  \/ TermPopCommandFromQueue
  \/ UploadEnds

Spec == Init /\ [][Next]_vars

\* Timers fire and started uploads end.
FairSpec ==
  /\ Spec
  /\ WF_vars(TermPopCommandFromQueue)
  /\ WF_vars(UploadEnds)

(***************************************************************************)
(* Properties of the command queue                                         *)
(***************************************************************************)

\* The nodes reached from a reference by following _myNext, at most n of them.
RECURSIVE Chain(_, _, _)
Chain(h, ref, n) ==
  IF ref = Null \/ n = 0 THEN <<>>
  ELSE <<ref>> \o Chain(h, h[ref]._myNext, n - 1)

\* The nodes of the queue, from _myFirst on.
Nodes == Chain(heap, _myCmdQueue._myFirst, Len(heap) + 1)

\* C5: FIFO.  The k-th non-null result of pop is the k-th object given to
\* add, and its command text and toEcho flag read at the pop are the ones it
\* was added with.
C5_Fifo ==
  /\ Len(popped) <= Len(added)
  /\ \A k \in 1..Len(popped) : popped[k] = added[k]

\* C5 witness: three different commands added, a pop between the adds, and
\* the second pop just returned the second of them.
C5_Witness ==
  /\ lastOp.op = "pop"
  /\ Len(added) = 3
  /\ Len(popped) = 2
  /\ lastOp.item = added[2].ref
  /\ added[1].command # added[2].command
  /\ added[1].toEcho # added[2].toEcho
  /\ _myCmdQueue._myLength = 1

\* C6: isEmpty() is true exactly when as many commands were popped as were
\* added, and extent() is the number of commands added and not popped yet.
C6_EmptyAndExtent ==
  /\ isEmpty(_myCmdQueue) <=> (Len(added) = Len(popped))
  /\ extent(_myCmdQueue) = Len(added) - Len(popped)

\* C6 witness: the queue is empty again after two adds and two pops.
C6_Witness ==
  /\ lastOp.op = "pop"
  /\ lastOp.item # Null
  /\ Len(added) = 2
  /\ Len(popped) = 2
  /\ isEmpty(_myCmdQueue)

\* C7: structure of the queue.  _myLength is the number of nodes reached from
\* _myFirst, it is never negative, _myFirst is null iff _myLast is null iff
\* _myLength is 0, and _myLast is the last node reached, with a null _myNext.
C7_Structure ==
  /\ _myCmdQueue._myLength = Len(Nodes)
  /\ _myCmdQueue._myLength >= 0
  /\ (_myCmdQueue._myFirst = Null) <=> (_myCmdQueue._myLast = Null)
  /\ (_myCmdQueue._myLast = Null) <=> (_myCmdQueue._myLength = 0)
  /\ _myCmdQueue._myLength > 0 =>
       /\ _myCmdQueue._myLast = Nodes[Len(Nodes)]
       /\ heap[_myCmdQueue._myLast]._myNext = Null

\* C7 witness: a queue of two nodes that was emptied once before.
C7_Witness ==
  /\ Len(popped) = 1
  /\ Len(added) = 3
  /\ Nodes = <<2, 3>>
  /\ _myCmdQueue._myLast = 3

\* C8: pop on an empty queue returns null and leaves _myFirst, _myLast and
\* _myLength as they were, the length being 0.
C8_PopOnEmpty ==
  [][(lastOp'.op = "pop" /\ _myCmdQueue._myFirst = Null) =>
       /\ lastOp'.item = Null
       /\ _myCmdQueue' = _myCmdQueue
       /\ _myCmdQueue'._myLength = 0
       /\ heap' = heap
       /\ popped' = popped]_vars

\* C8 witness: pop returned null on a queue emptied by an earlier pop.
C8_Witness ==
  /\ lastOp.op = "pop"
  /\ lastOp.item = Null
  /\ Len(added) = 1
  /\ Len(popped) = 1
  /\ _myCmdQueue = DrawCommandQueue

(***************************************************************************)
(* Properties of the drain loop                                            *)
(***************************************************************************)

\* C1: at most one command is in flight to the evaluator: at most one
\* promise of termEvaluateCommand is started and not settled.
C1_AtMostOneInFlight == Cardinality(pending) <= 1

\* C2: the commands given to termEvaluateCommand so far are, in order and
\* one for one, the first of the commands given to _termQueueCommand.
C2_DispatchInOrder ==
  /\ Len(evaluated) <= Len(added)
  /\ \A k \in 1..Len(evaluated) :
       /\ evaluated[k].command = added[k].command
       /\ popped[k].ref = added[k].ref
  /\ Len(popped) = Len(evaluated)

\* C2 witness: two different commands were dispatched in the order they were
\* queued in, the first one failing, while a third one waits.
C2_Witness ==
  /\ Len(evaluated) = 2
  /\ Len(added) = 3
  /\ evaluated[1].outcome \in {"failed", "throws", "syntax"}
  /\ evaluated[1].command # evaluated[2].command
  /\ added[3].command # evaluated[2].command

\* The outcomes of a drain step or of an upload that are failures.
Failures == {"failed", "syntax", "throws", "fetchfailed", "preloadfailed"}

\* C3: a failing evaluation does not halt the drain loop: the task in which
\* the evaluation fails writes the error text, then a prompt, and leaves a
\* drain scheduled if the queue is not empty.
C3_FailureDoesNotHaltDrain ==
  (lastOp.op \in {"drain", "settle"} /\ lastOp.outcome \in Failures) =>
    /\ Len(written) >= 2
    /\ written[Len(written) - 1] = WError
    /\ written[Len(written)] = WPrompt
    /\ ~isEmpty(_myCmdQueue) => timers > 0

\* C4: every queued command eventually runs, timers firing and uploads ending.
C4_EveryCommandRuns ==
  \A k \in 1..MaxInput : (Len(added) >= k) ~> (Len(evaluated) >= k)

\* C24: the dispatch of an empty command does not invoke the evaluator,
\* leaves the history and the history cursor as they are, counts as a
\* success (no error text), prints a prompt and schedules the next drain if
\* the queue is not empty.
C24_EmptyCommand ==
  [][(lastOp'.op = "drain" /\ lastOp'.item # Null /\ lastOp'.ev = <<>>) =>
       /\ lastOp'.outcome = "empty"
       /\ _myTermHistory' = _myTermHistory
       /\ _myTermHistoryPos' = _myTermHistoryPos
       /\ pending' = pending
       /\ internalError' = internalError
       /\ written' = (IF heap[lastOp'.item].toEcho THEN <<WText(<<>>)>> ELSE <<>>)
                        \o <<WPrompt>>
       /\ _myTermInCounter' = _myTermInCounter + 1
       /\ timers' = timers - 1 + (IF ~isEmpty(_myCmdQueue') THEN 1 ELSE 0)]_vars

\* C24 witness: an empty command was dispatched while a history item was
\* displayed and another command waited: the cursor stayed, a prompt was
\* printed and a drain is scheduled.
C24_Witness ==
  /\ lastOp.op = "drain"
  /\ lastOp.outcome = "empty"
  /\ Len(_myTermHistory) = 1
  /\ _myTermHistoryPos = 0
  /\ _myTermLine = _myTermHistory[1]
  /\ written = <<WText(<<>>), WPrompt>>
  /\ ~isEmpty(_myCmdQueue)
  /\ timers = 1

\* C26: a drain step and the end of an upload leave the input line as it
\* is; the key events, and the data events without a carriage return, leave
\* the command queue, its commands and the drain timers as they are.
C26_DrainLeavesLine ==
  [][/\ lastOp'.op \in {"drain", "settle"} => _myTermLine' = _myTermLine
     /\ ( \/ lastOp'.op \in {"keydown", "keyup"}
          \/ /\ lastOp'.op = "data"
             /\ \A i \in 1..Len(lastOp'.ev) : lastOp'.ev[i] # CR ) =>
          /\ _myCmdQueue' = _myCmdQueue
          /\ heap' = heap
          /\ added' = added
          /\ timers' = timers]_vars

\* C26 witness: "a{" was typed while a command waited in the queue, and the
\* drain step that evaluated the command left "a{" on the line.
C26_Witness ==
  /\ lastOp.op = "drain"
  /\ lastOp.item # Null
  /\ Len(evaluated) = 1
  /\ _myTermLine = <<"a", "{">>
  /\ nInput = 4

\* C27: a drain timer that fires when the queue is empty does nothing: no
\* evaluation, nothing written, no prompt, the history, its cursor and the
\* prompt counter unchanged, and no drain scheduled.
C27_TimerOnEmptyQueue ==
  [][(lastOp'.op = "drain" /\ isEmpty(_myCmdQueue)) =>
       /\ lastOp'.item = Null
       /\ evaluated' = evaluated
       /\ popped' = popped
       /\ pending' = pending
       /\ written' = <<>>
       /\ _myTermInCounter' = _myTermInCounter
       /\ _myTermHistory' = _myTermHistory
       /\ _myTermHistoryPos' = _myTermHistoryPos
       /\ _myTermLine' = _myTermLine
       /\ _myCmdQueue' = _myCmdQueue
       /\ heap' = heap
       /\ timers' = timers - 1]_vars

\* C27 witness: two timers were pending for one queued command; the second
\* one fired on the empty queue after the first one had started the
\* evaluation.
C27_Witness ==
  /\ lastOp.op = "drain"
  /\ lastOp.item = Null
  /\ isEmpty(_myCmdQueue)
  /\ timers = 0
  /\ Len(evaluated) = 2
  /\ pending = {}
  /\ written = <<>>

\* C23: exactly one prompt per dispatched command: once the evaluation of
\* the k-th command has started, k - 1 prompts were printed, or k once it has
\* had its own; and the evaluation of the next command starts with exactly
\* k prompts printed.
C23_OnePromptPerCommand ==
  [][/\ evaluated' # evaluated => _myTermInCounter = Len(evaluated)
     /\ _myTermInCounter' \in {Len(evaluated') - 1, Len(evaluated')}
     /\ _myTermInCounter' >= _myTermInCounter]_vars

\* C21: at most one drain timer is pending at any time.
C21_AtMostOneTimer == timers <= 1

\* C20: the dispatcher is never idle with a queue that is not empty: then a
\* drain timer is pending, or an evaluation is in flight whose reaction will
\* schedule a drain.
C20_NeverIdleWithCommands ==
  ~isEmpty(_myCmdQueue) => (timers > 0 \/ pending # {})

\* The last write of a task is the prompt, and a drain is then scheduled if
\* and only if the queue is not empty.
PromptThenNext(timersLeft) ==
  /\ Len(written') > 0
  /\ written'[Len(written')] = WPrompt
  /\ timers' = timersLeft + (IF ~isEmpty(_myCmdQueue') THEN 1 ELSE 0)

\* C18: a drain step that finds a command dequeues exactly that one, writes
\* its text first of all if and only if its echo flag is set, and, the
\* evaluation once settled with success or with failure (in the same task,
\* or in the task that ends an upload), writes a prompt last and then
\* schedules the next drain if and only if the queue is not empty.
C18_DrainStep ==
  [][/\ (lastOp'.op = "drain" /\ lastOp'.item # Null) =>
          LET aCmd == lastOp'.item
          IN  /\ aCmd = _myCmdQueue._myFirst
              /\ extent(_myCmdQueue') = extent(_myCmdQueue) - 1
              /\ popped' = Append(popped, Seen(heap, aCmd))
              /\ evaluated' = Append(evaluated, [command |-> heap[aCmd].command,
                                                  outcome |-> lastOp'.outcome])
              /\ IF heap[aCmd].toEcho
                 THEN /\ Len(written') > 0
                      /\ written'[1] = WText(heap[aCmd].command)
                 ELSE \A i \in 1..Len(written') : written'[i][1] # "text"
              /\ IF lastOp'.outcome = "starts"
                 THEN timers' = timers - 1
                 ELSE PromptThenNext(timers - 1)
     /\ lastOp'.op = "settle" => PromptThenNext(timers)]_vars

\* C17: a carriage return that queues a command starts a drain timer if and
\* only if the queue was empty right before the command was added; and a
\* command is evaluated by a timer callback only, in a task later than the
\* one that queued it.
C17_ScheduleIffWasEmpty ==
  [][LET theEvent == lastOp'.ev
         before   == onChars(Entry, DropLast(theEvent))
     IN  /\ ( /\ lastOp'.op = "data"
              /\ theEvent[Len(theEvent)] = CR
              /\ added' # before.added ) =>
            timers' = before.timers + (IF isEmpty(before.mem.queue) THEN 1 ELSE 0)
         /\ lastOp'.op = "data" => (evaluated' = evaluated /\ popped' = popped)
         /\ evaluated' # evaluated =>
              /\ lastOp'.op = "drain"
              /\ timers > 0
              /\ Len(evaluated') <= Len(added)]_vars

\* C17 witness: a command was queued and evaluated, then the data event
\* "<CR><CR>" queued two: the first found the queue empty and started the
\* one timer, the second did not start another.
C17_Witness ==
  /\ lastOp.op = "data"
  /\ lastOp.ev = <<CR, CR>>
  /\ Len(added) = 3
  /\ Len(evaluated) = 1
  /\ extent(_myCmdQueue) = 2
  /\ timers = 1

(***************************************************************************)
(* Properties of the line editor                                           *)
(***************************************************************************)

\* The characters of a text: neither the deletion character nor the carriage return.
IsText(c) == \A i \in 1..Len(c) : c[i] \notin {DEL, CR}

\* C9: from an empty line, a data event made of a text c and one carriage
\* return, c complete and without a trailing backslash, queues the one
\* command c with echo = false and leaves the line empty.
C9_TextThenReturn ==
  [][LET theEvent == lastOp'.ev
         c        == DropLast(theEvent)
     IN  ( /\ lastOp'.op = "data"
           /\ theEvent[Len(theEvent)] = CR
           /\ IsText(c)
           /\ ~EndsWithBackslash(c)
           /\ isComplete(c)
           /\ _myTermLine = <<>> ) =>
         /\ added' = Append(added, [ref |-> Len(heap) + 1, command |-> c,
                                    toEcho |-> FALSE])
         /\ extent(_myCmdQueue') = extent(_myCmdQueue) + 1
         /\ _myTermLine' = <<>>]_vars

\* C9 witness: the data event "a<CR>" on an empty line queued the command "a".
C9_Witness ==
  /\ lastOp.op = "data"
  /\ lastOp.ev = <<"a", CR>>
  /\ added = <<[ref |-> 1, command |-> <<"a">>, toEcho |-> FALSE]>>
  /\ _myTermLine = <<>>

\* C10: a carriage return met while the line ends with a backslash queues
\* nothing and removes that one backslash, the rest of the line being kept.
C10_ContinuationMarker ==
  [][LET theEvent == lastOp'.ev
         before   == onChars(Entry, DropLast(theEvent))
     IN  ( /\ lastOp'.op = "data"
           /\ theEvent[Len(theEvent)] = CR
           /\ EndsWithBackslash(before.line) ) =>
         /\ added' = before.added
         /\ _myCmdQueue' = before.mem.queue
         /\ heap' = before.mem.heap
         /\ Append(_myTermLine', BSL) = before.line]_vars

\* C10 witness: "a" was typed, then "\<CR>": the line is "a" and nothing is queued.
C10_Witness ==
  /\ lastOp.op = "data"
  /\ lastOp.ev = <<BSL, CR>>
  /\ _myTermLine = <<"a">>
  /\ added = <<>>
  /\ written = <<WChar(BSL), WContinue>>

\* C11: a carriage return met while the line does not end with a backslash
\* and is not complete queues nothing and makes the line the previous line
\* followed by line-feed and carriage-return; and a text c typed after it and
\* closed by a carriage return that completes a command queues the line kept
\* so far followed by c.
C11_IncompleteLineContinues ==
  [][LET theEvent == lastOp'.ev
         before   == onChars(Entry, DropLast(theEvent))
         c        == DropLast(theEvent)
     IN  /\ ( /\ lastOp'.op = "data"
              /\ theEvent[Len(theEvent)] = CR
              /\ ~EndsWithBackslash(before.line)
              /\ ~isComplete(before.line) ) =>
            /\ added' = before.added
            /\ _myCmdQueue' = before.mem.queue
            /\ heap' = before.mem.heap
            /\ _myTermLine' = before.line \o <<LF, CR>>
         /\ ( /\ lastOp'.op = "data"
              /\ theEvent[Len(theEvent)] = CR
              /\ IsText(c)
              /\ added' # added ) =>
            /\ Len(added') = Len(added) + 1
            /\ added'[Len(added')].command = _myTermLine \o c]_vars

\* C11 witness: "{<CR>" left the line "{" continued, and "}<CR>" then queued
\* the command made of both lines.
C11_Witness ==
  /\ lastOp.op = "data"
  /\ lastOp.ev = <<"}", CR>>
  /\ added = <<[ref |-> 1, command |-> <<"{", LF, CR, "}">>, toEcho |-> FALSE]>>
  /\ _myTermLine = <<>>

\* C15: a deletion character removes exactly the last character of a
\* non-empty line and writes one erase sequence, or nothing when the data
\* event it is part of has already queued a command; on an empty line it
\* changes nothing and writes nothing; it never queues a command.
C15_Deletion ==
  [][LET theEvent == lastOp'.ev
         before   == onChars(Entry, DropLast(theEvent))
     IN  ( /\ lastOp'.op = "data"
           /\ theEvent[Len(theEvent)] = DEL ) =>
         /\ added' = before.added
         /\ _myCmdQueue' = before.mem.queue
         /\ heap' = before.mem.heap
         /\ timers' = before.timers
         /\ IF Len(before.line) > 0
            THEN /\ Append(_myTermLine', before.line[Len(before.line)]) = before.line
                 /\ written' = IF before.added = added
                                THEN Append(before.written, WErase)
                                ELSE before.written
            ELSE /\ _myTermLine' = <<>>
                 /\ written' = before.written]_vars

\* C15 witness: the paste "<CR>a<DEL>" queued the empty command and left the
\* line empty again, nothing being written for the deletion.
C15_Witness ==
  /\ lastOp.op = "data"
  /\ lastOp.ev = <<CR, "a", DEL>>
  /\ Len(added) = 1
  /\ _myTermLine = <<>>
  /\ written = <<>>

\* C16: a character other than the deletion character and the carriage
\* return is appended to the end of the line and queues nothing; it is
\* written to the terminal if and only if the data event it is part of has
\* not queued a command before it.
C16_OtherCharacter ==
  [][LET theEvent == lastOp'.ev
         aChar    == theEvent[Len(theEvent)]
         before   == onChars(Entry, DropLast(theEvent))
     IN  ( /\ lastOp'.op = "data"
           /\ aChar \notin {DEL, CR} ) =>
         /\ _myTermLine' = Append(before.line, aChar)
         /\ added' = before.added
         /\ _myCmdQueue' = before.mem.queue
         /\ heap' = before.mem.heap
         /\ timers' = before.timers
         /\ written' = IF before.added = added
                        THEN Append(before.written, WChar(aChar))
                        ELSE before.written]_vars

\* C16 witness: the paste "a<CR>a" queued the command "a", which made the
\* terminal show the first "a" only, and left the second "a" on the line.
C16_Witness ==
  /\ lastOp.op = "data"
  /\ lastOp.ev = <<"a", CR, "a">>
  /\ Len(added) = 1
  /\ added[1].command = <<"a">>
  /\ _myTermLine = <<"a">>
  /\ written = <<WChar("a")>>

\* The state of the handler of a data event after its first i characters.
AfterChars(theEvent, i) == onChars(Entry, SubSeq(theEvent, 1, i))

\* C29: at the end of a data event every character left on the line was
\* written to the terminal: a character the event appended to the line, and
\* that no later character of the event removed from it, was written when
\* it was appended.
C29_LineIsShown ==
  [][lastOp'.op = "data" =>
       LET theEvent == lastOp'.ev
       IN  \A i \in 1..Len(theEvent) :
             LET aBefore  == AfterChars(theEvent, i - 1)
                 anAfter  == AfterChars(theEvent, i)
                 aPlace   == Len(aBefore.line) + 1
             IN  ( /\ theEvent[i] \notin {DEL, CR}
                   /\ \A j \in i..Len(theEvent) :
                        Len(AfterChars(theEvent, j).line) >= aPlace
                   /\ _myTermLine'[aPlace] = theEvent[i] ) =>
                 anAfter.written = Append(aBefore.written, WChar(theEvent[i]))]_vars

\* The lines of a text that ends with a carriage return, one per carriage
\* return and without it.
RECURSIVE SplitLines(_)
SplitLines(theText) ==
  IF theText = <<>> THEN <<>>
  ELSE LET i == CHOOSE k \in 1..Len(theText) :
                  /\ theText[k] = CR
                  /\ \A j \in 1..(k - 1) : theText[j] # CR
       IN  <<SubSeq(theText, 1, i - 1)>>
             \o SplitLines(SubSeq(theText, i + 1, Len(theText)))

\* The first n of the lines, each without its last character, one after the
\* other with nothing between them.
RECURSIVE Joined(_, _)
Joined(theLines, n) ==
  IF n = 0 THEN <<>>
  ELSE Joined(theLines, n - 1) \o DropLast(theLines[n])

C14_EchoFlag ==
  [][lastOp'.op = "data" =>
       /\ Len(added') >= Len(added)
       /\ SubSeq(added', 1, Len(added)) = added
       /\ \A k \in (Len(added) + 1)..Len(added') :
            added'[k].toEcho = (k # Len(added) + 1)]_vars

\* C14 witness: "a<CR>" queued one command without echo, and the later data
\* event "<CR><CR>" queued one without echo and then one with echo.
C14_Witness ==
  /\ lastOp.op = "data"
  /\ lastOp.ev = <<CR, CR>>
  /\ Len(added) = 3
  /\ added[1].command = <<"a">>
  /\ <<added[1].toEcho, added[2].toEcho, added[3].toEcho>> = <<FALSE, FALSE, TRUE>>

(***************************************************************************)
(* Properties of the history                                               *)
(***************************************************************************)

\* The texts of the non-empty commands among the first n given to
\* termEvaluateCommand, in order.
RECURSIVE NonEmptyEvaluated(_)
NonEmptyEvaluated(n) ==
  IF n = 0 THEN <<>>
  ELSE IF evaluated[n].command = <<>> THEN NonEmptyEvaluated(n - 1)
  ELSE Append(NonEmptyEvaluated(n - 1), evaluated[n].command)

\* C19: the history is, in dispatch order, the texts of the non-empty
\* commands whose evaluation was started, the failed ones included; no task
\* removes, reorders or rewrites an entry, and the key events and the data
\* events leave the history as it is.
C19_HistoryAppendOnly ==
  /\ [](_myTermHistory = NonEmptyEvaluated(Len(evaluated)))
  /\ [][/\ Len(_myTermHistory') >= Len(_myTermHistory)
         /\ SubSeq(_myTermHistory', 1, Len(_myTermHistory)) = _myTermHistory
         /\ lastOp'.op \in {"data", "keydown", "keyup", "settle"} =>
              _myTermHistory' = _myTermHistory]_vars

\* C19 witness: an empty command and a command whose evaluation failed were
\* dispatched, the history holds the second only, and an arrow key has just
\* brought it back on the line.
C19_Witness ==
  /\ Len(evaluated) = 2
  /\ evaluated[1].command = <<>>
  /\ evaluated[2].outcome \in Failures
  /\ _myTermHistory = <<evaluated[2].command>>
  /\ lastOp.op = "keydown"
  /\ _myTermLine = _myTermHistory[1]

(***************************************************************************)
(* Properties of the history navigation                                    *)
(***************************************************************************)

\* The arrow keydown events handled in a row by the task just done.
KeysInARow == IF lastOp.op = "keydown" THEN lastOp.ev ELSE <<>>

\* C12 as stated: with a history of two different commands [a, b] and no
\* history item displayed, the keydown events Up, Up, Down leave the line
\* equal to a after the first, b after the second and a after the third.
C12_UpUpDownAsStated ==
  (Len(_myTermHistory) = 2 /\ _myTermHistory[1] # _myTermHistory[2]) =>
    /\ KeysInARow = <<ArrowUp>> => _myTermLine = _myTermHistory[1]
    /\ KeysInARow = <<ArrowUp, ArrowUp>> => _myTermLine = _myTermHistory[2]
    /\ KeysInARow = <<ArrowUp, ArrowUp, ArrowDown>> =>
         _myTermLine = _myTermHistory[1]

\* C12 amended: with a history of two different commands [a, b] and no
\* history item displayed, the keydown events Up, Up, Down leave the line
\* equal to b after the first, a after the second and b after the third.
C12_UpUpDown ==
  (Len(_myTermHistory) = 2 /\ _myTermHistory[1] # _myTermHistory[2]) =>
    /\ KeysInARow = <<ArrowUp>> => _myTermLine = _myTermHistory[2]
    /\ KeysInARow = <<ArrowUp, ArrowUp>> => _myTermLine = _myTermHistory[1]
    /\ KeysInARow = <<ArrowUp, ArrowUp, ArrowDown>> =>
         _myTermLine = _myTermHistory[2]

\* C12 witness: two different commands were evaluated, and Up, Up, Down
\* were pressed with no history item displayed at first.
C12_Witness ==
  /\ Len(_myTermHistory) = 2
  /\ _myTermHistory[1] # _myTermHistory[2]
  /\ Len(evaluated) = 2
  /\ KeysInARow = <<ArrowUp, ArrowUp, ArrowDown>>
  /\ _myTermLine = _myTermHistory[2]
  /\ _myTermHistoryPos = 1

\* C28: an arrow keydown with an empty history erases the line, which
\* becomes empty, and leaves the history cursor at none; an arrow key event
\* that is not a keydown changes neither the line nor the history cursor and
\* writes nothing; in all these cases the handler returns false.
C28_NothingToNavigate ==
  [][/\ (lastOp'.op = "keydown" /\ Len(_myTermHistory) = 0) =>
          /\ _myTermLine' = <<>>
          /\ written' = EraseLine(_myTermLine)
          /\ _myTermHistoryPos = NoHistoryPos
          /\ _myTermHistoryPos' = NoHistoryPos
          /\ _myTermHistory' = <<>>
     /\ lastOp'.op = "keyup" =>
          /\ _myTermLine' = _myTermLine
          /\ _myTermHistoryPos' = _myTermHistoryPos
          /\ _myTermHistory' = _myTermHistory
          /\ written' = <<>>
     /\ lastOp'.op \in {"keydown", "keyup"} => lastOp'.outcome = "false"]_vars

\* C28 witness: "a{" was typed and an Up keydown, the history being empty,
\* erased both characters and returned false.
C28_Witness ==
  /\ lastOp.op = "keydown"
  /\ lastOp.item = ArrowUp
  /\ lastOp.outcome = "false"
  /\ _myTermHistory = <<>>
  /\ _myTermHistoryPos = NoHistoryPos
  /\ _myTermLine = <<>>
  /\ written = <<WErase, WErase>>
  /\ nInput = 2

\* C25: the dispatch of a non-empty command puts it last in the history and
\* resets the history cursor to none; and an arrow keydown, Up or Down, that
\* finds the cursor at none and the history not empty selects the newest
\* history entry, the last non-empty command dispatched.
C25_CursorReset ==
  [][/\ (lastOp'.op = "drain" /\ lastOp'.item # Null /\ lastOp'.ev # <<>>) =>
          /\ _myTermHistoryPos' = NoHistoryPos
          /\ _myTermHistory' = Append(_myTermHistory, lastOp'.ev)
     /\ (lastOp'.op \in {"data", "keyup", "settle"}
          /\ _myTermHistoryPos = NoHistoryPos) =>
          _myTermHistoryPos' = NoHistoryPos
     /\ ( /\ lastOp'.op = "keydown"
          /\ _myTermHistoryPos = NoHistoryPos
          /\ Len(_myTermHistory) > 0 ) =>
          LET aDispatched == NonEmptyEvaluated(Len(evaluated))
          IN  /\ _myTermHistoryPos' = Len(_myTermHistory) - 1
              /\ _myTermLine' = _myTermHistory[Len(_myTermHistory)]
              /\ _myTermLine' = aDispatched[Len(aDispatched)]]_vars

\* C25 witness: a history item was displayed, a second and different command
\* was dispatched, and the first arrow keydown after it, a Down, shows that
\* second command.
C25_Witness ==
  /\ lastOp.op = "keydown"
  /\ lastOp.item = ArrowDown
  /\ KeysInARow = <<ArrowDown>>
  /\ Len(_myTermHistory) = 2
  /\ _myTermHistory[1] # _myTermHistory[2]
  /\ _myTermHistoryPos = 1
  /\ _myTermLine = evaluated[2].command

\* The history cursor is none or the index of a history item.
CursorInBounds ==
  \/ _myTermHistoryPos = NoHistoryPos
  \/ (0 <= _myTermHistoryPos /\ _myTermHistoryPos <= Len(_myTermHistory) - 1)

\* C13: the history cursor is always none or an index of the history; an Up
\* keydown at the oldest entry stays on it and a Down keydown at the newest
\* entry stays on it; after an arrow keydown with a non-empty history the
\* line is the history item the cursor is on.
C13_CursorClamped ==
  /\ []CursorInBounds
  /\ [][(lastOp'.op = "keydown" /\ Len(_myTermHistory) > 0) =>
          /\ (lastOp'.item = ArrowUp /\ _myTermHistoryPos = 0) =>
                _myTermHistoryPos' = 0
          /\ (lastOp'.item = ArrowDown
               /\ _myTermHistoryPos = Len(_myTermHistory) - 1) =>
                _myTermHistoryPos' = Len(_myTermHistory) - 1
          /\ _myTermHistoryPos' # NoHistoryPos
          /\ _myTermLine' = _myTermHistory[_myTermHistoryPos' + 1]]_vars

\* C13 witness: with two commands in the history, a third Up in a row found
\* the cursor on the oldest entry and left it there.
C13_Witness ==
  /\ Len(_myTermHistory) = 2
  /\ KeysInARow = <<ArrowUp, ArrowUp, ArrowUp>>
  /\ _myTermHistoryPos = 0
  /\ _myTermLine = _myTermHistory[1]

====
